---------------------------- MODULE Spec2Model ----------------------------
(***************************************************************************)
(* A model of server.py of imolecule: the tornado/tornadio server that     *)
(* runs every json-rpc request of a browser client in a multiprocessing    *)
(* pool, waits for it with a deadline, and answers over the channel.       *)
(*                                                                         *)
(* One IOLoop thread runs every callback of the process (constructors,     *)
(* on_message, the zmq on_recv callback), so at most one callback is       *)
(* active at a time.  on_message blocks that thread inside                 *)
(* async.get(timeout=TIMEOUT); while it is blocked, only time and the      *)
(* worker processes of the pools (real OS processes) make progress.        *)
(***************************************************************************)
EXTENDS Integers, Sequences, FiniteSets, TLC

(* ------------------------------ bounds --------------------------------- *)

\* Number of callbacks carrying a request (websocket or zmq) in one run.
MaxRequests == 3

(* ------------------------- program constants --------------------------- *)

\* parser.add_argument("--timeout", type=int, default=5, ...)
TIMEOUT == 5

\* parser.add_argument("--workers", type=int, default=2, ...)
WORKERS == 2

\* The fixed advisory text of the timeout branch.
TIMEOUT_MESSAGE ==
    "File format conversion timed out! This is due either to a large input file or a segmentation fault in the underlying open babel library."

(* ------------------------------ inputs --------------------------------- *)

\* ClientConnection instances the router can construct (one per client).
Conns == {"ws1", "ws2"}

\* The zmq REP stream bound to TCP_PORT.
ZMQ == "zmq"

Ids == {1, 2}

Methods == {"convert", "doesNotExist"}

\* The keyword-argument names of a params mapping (values are not
\* interpreted by server.py).
ParamSets == {{"data"}, {}}

\* The surface of the format_converter module: operation name -> the
\* keyword arguments the operation requires.
format_converter == [convert |-> {"data"}]

\* Request envelopes: json objects, any of the three keys may be missing.
Envelopes ==
    [id : Ids, method : Methods, params : ParamSets]
        \cup [method : Methods, params : ParamSets]
        \cup [id : Ids, params : ParamSets]
        \cup [id : Ids, method : Methods]
        \cup [id : Ids]

\* Wall-clock durations of an operation, in ticks of the timeout's unit.
Durations == {1, TIMEOUT, TIMEOUT + 1}

\* Exception classes an operation may raise; "TimeoutError" is
\* multiprocessing.TimeoutError, the class the first except clause names.
ExcTypes == {"ValueError", "TimeoutError"}

\* Two distinguishable return values.
Values == {"pdb text", "mol text"}

\* What the invoked operation does in its worker process: return a value,
\* raise, never finish, or kill its process (segmentation fault).
Behaviours ==
    [kind : {"return"}, val : Values, dur : Durations]
        \cup [kind : {"raise"}, val : ExcTypes, dur : Durations \ {TIMEOUT}]
        \cup [kind : {"hang", "crash"}, val : {""}, dur : {0}]

Raise(exc) == [kind |-> "raise", val |-> exc, dur |-> 0]

\* def _worker_process(msg):
\*     return getattr(format_converter, msg["method"])(**msg["params"])
\* evaluated left to right: msg["method"], getattr, msg["params"], the call.
worker_process(msg, beh) ==
    IF "method" \notin DOMAIN msg THEN Raise("KeyError")
    ELSE IF msg.method \notin DOMAIN format_converter THEN Raise("AttributeError")
    ELSE IF "params" \notin DOMAIN msg THEN Raise("KeyError")
    ELSE IF msg.params # format_converter[msg.method] THEN Raise("TypeError")
    ELSE beh

\* The operation itself is entered only by a call that resolves and binds.
Invokes(msg) ==
    /\ "method" \in DOMAIN msg
    /\ msg.method \in DOMAIN format_converter
    /\ "params" \in DOMAIN msg
    /\ msg.params = format_converter[msg.method]

NoBehaviour == [kind |-> "hang", val |-> "", dur |-> 0]

\* A request: the envelope and what its operation would do if invoked.
Requests ==
    {r \in [msg : Envelopes, beh : Behaviours] :
        Invokes(r.msg) \/ r.beh = NoBehaviour}

(* ------------------------------- state --------------------------------- *)

VARIABLES
    conns,      \* the ClientConnection instances constructed so far
    pool,       \* self.pool of each instance
    terminated, \* the pools on which terminate() was called
    nextPid,    \* identity of the next multiprocessing.Pool object
    pc,         \* the IOLoop: "idle", "get" (blocked in async.get),
                \* "send" (at line 68), "done"
    self,       \* the channel whose callback is running or ran last
    message,    \* on_message's argument
    beh,        \* what the operation of this request does when invoked
    async,      \* the AsyncResult of line 54
    waited,     \* time spent in async.get so far
    sent,       \* what the callback sent: <<[chan, result, error, id]>>
    escaped,    \* the exception leaving the callback, or "none"
    nreq,       \* requests delivered to callbacks so far
    recycled,   \* per instance: how many times its pool was replaced
    abandoned   \* values the submissions given up at the deadline would
                \* have returned, had their processes not been killed

vars == <<conns, pool, terminated, nextPid, pc, self, message, beh, async,
          waited, sent, escaped, nreq, recycled, abandoned>>

Workers == 1..WORKERS

\* multiprocessing.Pool(processes=WORKERS): WORKERS fresh idle processes.
NewPool(pid) == [pid |-> pid, ctx |-> [w \in Workers |-> "idle"]]

NoPool == [pid |-> 0, ctx |-> [w \in Workers |-> "none"]]

NoAsync == [pid |-> 0, w |-> 0, out |-> NoBehaviour, left |-> 0,
            ready |-> FALSE]

NoMessage == [id |-> 0]

Init ==
    /\ conns = {}
    /\ pool = [c \in Conns |-> NoPool]
    /\ terminated = {}
    /\ nextPid = 1
    /\ pc = "idle"
    /\ self = "none"
    /\ message = NoMessage
    /\ beh = NoBehaviour
    /\ async = NoAsync
    /\ waited = 0
    /\ sent = << >>
    /\ escaped = "none"
    /\ nreq = 0
    /\ recycled = [c \in Conns |-> 0]
    /\ abandoned = {}

\* Variant: callbacks run whenever a message arrives (a handler per thread).
LoopAlwaysFree == TRUE

\* No callback is running on the IOLoop thread.
LoopIdle == pc \in {"idle", "done"}


(* ---------------------- ClientConnection.__init__ ---------------------- *)

\* self.pool = multiprocessing.Pool(processes=WORKERS)
Connect(c) ==
    /\ LoopIdle
    /\ c \notin conns
    /\ conns' = conns \cup {c}
    /\ pool' = [pool EXCEPT ![c] = NewPool(nextPid)]
    /\ nextPid' = nextPid + 1
    /\ UNCHANGED <<terminated, pc, self, message, beh, async, waited, sent,
                   escaped, nreq, recycled, abandoned>>

(* --------------------- ClientConnection.on_message --------------------- *)

\* async = self.pool.apply_async(_worker_process, [message]): the task is
\* taken by one idle process of the pool, which runs _worker_process.
apply_async(p, w, msg, b) ==
    [pid |-> p.pid, w |-> w, out |-> worker_process(msg, b),
     left |-> worker_process(msg, b).dur, ready |-> FALSE]

\* Lines 49-54, up to the blocking async.get of line 56.
OnMessage(c, req) ==
    /\ LoopIdle
    /\ c \in conns
    /\ nreq < MaxRequests
    /\ \E w \in Workers :
          /\ pool[c].ctx[w] = "idle"
          /\ async' = apply_async(pool[c], w, req.msg, req.beh)
          /\ pool' = [pool EXCEPT ![c].ctx[w] = "busy"]
    /\ pc' = "get"
    /\ self' = c
    /\ message' = req.msg
    /\ beh' = req.beh
    /\ waited' = 0
    /\ sent' = << >>
    /\ escaped' = "none"
    /\ nreq' = nreq + 1
    /\ UNCHANGED <<conns, terminated, nextPid, recycled, abandoned>>

\* The worker is still computing (or will never deliver anything).
Working(a) == ~a.ready /\ ~(a.out.kind \in {"return", "raise"} /\ a.left = 0)

\* One unit of time passes while the IOLoop is blocked in async.get.
Tick ==
    /\ pc = "get"
    /\ waited < TIMEOUT
    /\ Working(async)
    /\ waited' = waited + 1
    /\ async' = [async EXCEPT !.left = IF @ > 0 THEN @ - 1 ELSE 0]
    /\ UNCHANGED <<conns, pool, terminated, nextPid, pc, self, message, beh,
                   sent, escaped, nreq, recycled, abandoned>>

\* The worker process finishes _worker_process and hands the value or the
\* exception back; its process is free again.
WorkerDone ==
    /\ pc = "get"
    /\ ~async.ready
    /\ async.out.kind \in {"return", "raise"}
    /\ async.left = 0
    /\ async' = [async EXCEPT !.ready = TRUE]
    /\ pool' = [pool EXCEPT ![self].ctx[async.w] = "idle"]
    /\ UNCHANGED <<conns, terminated, nextPid, pc, self, message, beh, waited,
                   sent, escaped, nreq, recycled, abandoned>>

\* The operation kills its worker process; nothing is ever delivered.
WorkerCrash ==
    /\ pc = "get"
    /\ async.out.kind = "crash"
    /\ pool[self].ctx[async.w] = "busy"
    /\ pool' = [pool EXCEPT ![self].ctx[async.w] = "dead"]
    /\ UNCHANGED <<conns, terminated, nextPid, pc, self, message, beh, async,
                   waited, sent, escaped, nreq, recycled, abandoned>>

\* What async.get(timeout=TIMEOUT) raises: the worker's exception when the
\* result is ready, multiprocessing.TimeoutError when the wait ran out.
GetRaises(a) ==
    IF ~a.ready THEN "TimeoutError"
    ELSE IF a.out.kind = "raise" THEN a.out.val
    ELSE "none"

\* Variant: the clause for multiprocessing.TimeoutError is missing.
ClauseNoTimeout(exc) ==
    IF exc = "none" THEN "else" ELSE "exception"

\* Variant: every exception is taken by the first clause.
ClauseAnyIsTimeout(exc) ==
    IF exc = "none" THEN "else" ELSE "timeout"

\* The clause of the try statement that runs: the try body's tail
\* (error = 0), except multiprocessing.TimeoutError, or except Exception.
Clause(exc) ==
    IF exc = "none" THEN "else"
    ELSE IF exc = "TimeoutError" THEN "timeout"
    ELSE "exception"

\* traceback.format_exc()
format_exc(exc) == "Traceback (most recent call last): " \o exc

\* Variant: the value of the submission is used whenever it has one,
\* also after the deadline.
ResultLate(a) ==
    IF a.out.kind = "return" THEN a.out.val
    ELSE IF GetRaises(a) = "TimeoutError" THEN TIMEOUT_MESSAGE
    ELSE format_exc(GetRaises(a))

\* The value of `result` at line 68.
Result(a) ==
    CASE Clause(GetRaises(a)) = "else" -> a.out.val
      [] Clause(GetRaises(a)) = "timeout" -> TIMEOUT_MESSAGE
      [] OTHER -> format_exc(GetRaises(a))

\* Variant: error = 1 on every path.
ErrorAlways(a) == 1

\* The value of `error` at line 68.
Error(a) == IF Clause(GetRaises(a)) = "else" THEN 0 ELSE 1

\* Variant: one pool object shared by every instance (a class attribute).
RecycleShared(c) ==
    [d \in Conns |-> IF d \in conns THEN NewPool(nextPid) ELSE pool[d]]

\* Variant: the terminated pool is kept, no new pool is installed.
RecycleKeep(c) == pool

\* self.pool = multiprocessing.Pool(processes=WORKERS) of line 64.
Recycle(c) == [pool EXCEPT ![c] = NewPool(nextPid)]

\* Variant: lines 63 and 64 swapped, terminate() hits the new pool.
TerminateAfterInstall(c) == terminated \cup {nextPid}

\* Variant: the old pool is dropped without terminate().
TerminateSkipped(c) == terminated

\* self.pool.terminate() of line 63.
Terminate(c) == terminated \cup {pool[c].pid}

\* Variant: the response carries a null id.
ResponseNullId(c, msg, result, error) ==
    [chan |-> c, result |-> result, error |-> error, id |-> 0]

\* {"result": result, "error": error, "id": message["id"]}
Response(c, msg, result, error) ==
    [chan |-> c, result |-> result, error |-> error, id |-> msg.id]

\* What the submission given up at the deadline would still have returned.
Abandons(a) ==
    IF ~a.ready /\ a.out.kind = "return" THEN {a.out.val} ELSE {}

\* Lines 56-67 once async.get has returned or raised: the try body's tail
\* or one of the two except clauses.
Finish ==
    /\ IF Clause(GetRaises(async)) = "timeout"
       THEN /\ terminated' = Terminate(self)
            /\ pool' = Recycle(self)
            /\ nextPid' = nextPid + 1
            /\ recycled' = [recycled EXCEPT ![self] = @ + 1]
            /\ abandoned' = abandoned \cup Abandons(async)
       ELSE UNCHANGED <<terminated, pool, nextPid, recycled, abandoned>>
    /\ pc' = "send"
    /\ UNCHANGED <<conns, self, message, beh, async, waited, nreq, sent,
                   escaped>>

\* Lines 68-69: self.send({...}), whose argument raises KeyError when the
\* message has no "id".
Send ==
    /\ pc = "send"
    /\ IF "id" \in DOMAIN message
       THEN /\ sent' = Append(sent, Response(self, message, Result(async),
                                             Error(async)))
            /\ escaped' = "none"
       ELSE /\ sent' = sent
            /\ escaped' = "KeyError"
    /\ pc' = "done"
    /\ UNCHANGED <<conns, pool, terminated, nextPid, self, message, beh,
                   async, waited, nreq, recycled, abandoned>>

\* async.get returns the worker's value.
GetReturns ==
    /\ pc = "get"
    /\ async.ready
    /\ async.out.kind = "return"
    /\ Finish

\* async.get re-raises the exception the worker raised.
GetReraises ==
    /\ pc = "get"
    /\ async.ready
    /\ async.out.kind = "raise"
    /\ Finish

\* The wait of async.get runs out before a result is there.
GetTimesOut ==
    /\ pc = "get"
    /\ ~async.ready
    /\ waited = TIMEOUT
    /\ Finish

(* --------------------------- the zmq stream ---------------------------- *)

\* stream.on_recv(ClientConnection.on_message): the callback is the
\* function taken from the class, not a method of an instance, so the call
\* callback(frames) raises TypeError before any statement of on_message.
ZmqRecv(req) ==
    /\ LoopIdle
    /\ nreq < MaxRequests
    /\ pc' = "done"
    /\ self' = ZMQ
    /\ message' = req.msg
    /\ beh' = req.beh
    /\ async' = NoAsync
    /\ waited' = 0
    /\ sent' = << >>
    /\ escaped' = "TypeError"
    /\ nreq' = nreq + 1
    /\ UNCHANGED <<conns, pool, terminated, nextPid, recycled, abandoned>>

Next ==
    \/ \E c \in Conns : Connect(c)
    \/ \E c \in Conns, req \in Requests : OnMessage(c, req)
    \/ Tick
    \/ WorkerDone
    \/ WorkerCrash
    \/ GetReturns
    \/ GetReraises
    \/ GetTimesOut
    \/ Send
    \/ \E req \in Requests : ZmqRecv(req)

Spec == Init /\ [][Next]_vars

TypeOK ==
    /\ conns \subseteq Conns
    /\ pc \in {"idle", "get", "send", "done"}
    /\ abandoned \subseteq Values
    /\ self \in Conns \cup {ZMQ, "none"}
    /\ waited \in 0..TIMEOUT
    /\ nreq \in 0..MaxRequests
    /\ Len(sent) <= 1

(* ----------------------- vocabulary of the claims ---------------------- *)

\* A callback of a ClientConnection instance has run to its end.
Handled == pc = "done" /\ self \in Conns

HasId == "id" \in DOMAIN message

\* The operation was invoked and returned before the deadline.
CompletesInTime == Invokes(message) /\ beh.kind = "return" /\ beh.dur < TIMEOUT

\* The operation was invoked and raised before the deadline.
RaisesInTime == Invokes(message) /\ beh.kind = "raise" /\ beh.dur < TIMEOUT

\* The operation was invoked and is still running when the deadline passes.
RunsTooLong ==
    /\ Invokes(message)
    /\ \/ beh.kind = "hang"
       \/ beh.kind \in {"return", "raise"} /\ beh.dur > TIMEOUT

\* The pool the request was submitted to is still the instance's pool.
PoolKept == pool[self].pid = async.pid /\ async.pid \notin terminated

\* The pool the request was submitted to was terminated and replaced by a
\* fresh pool of WORKERS idle processes.
PoolReplaced ==
    /\ async.pid \in terminated
    /\ pool[self].pid # async.pid
    /\ pool[self].pid \notin terminated
    /\ pool[self] = NewPool(pool[self].pid)
    /\ DOMAIN pool[self].ctx = 1..WORKERS

Diagnostics == {format_exc(e) : e \in {"KeyError", "AttributeError", "TypeError"}}

(* ------------------------------ claims --------------------------------- *)

\* C1: a well-formed request (id, registered method, fitting params) whose
\* operation returns before the deadline
\* is answered with error 0 (false) and the operation's return value, and
\* the instance's pool is the pool it had when the request was submitted.
C1_CompletedResponse ==
    (Handled /\ HasId /\ CompletesInTime) =>
        /\ sent = <<[chan |-> self, result |-> beh.val, error |-> 0,
                     id |-> message.id]>>
        /\ PoolKept

C1_Witness ==
    /\ Handled /\ HasId /\ CompletesInTime
    /\ Len(sent) = 1 /\ sent[1].error = 0 /\ sent[1].result = "pdb text"
    /\ beh.val = "pdb text"

\* C2 (as claimed): a request whose operation raises, whatever the class
\* of the exception, is answered with error 1 and a non-empty diagnostic,
\* and the instance's pool is neither terminated nor replaced.
C2_FailedKeepsPool ==
    (Handled /\ HasId /\ RaisesInTime) =>
        /\ Len(sent) = 1
        /\ sent[1].error = 1
        /\ sent[1].result # ""
        /\ PoolKept

\* C3: a request (with an id) whose operation runs longer than TIMEOUT is
\* answered with
\* error 1 and the fixed timeout message; the pool it was submitted to is
\* terminated and the instance holds a different, fresh pool of WORKERS
\* idle processes.
C3_TimedOutRecycles ==
    (Handled /\ HasId /\ RunsTooLong) =>
        /\ sent = <<[chan |-> self, result |-> TIMEOUT_MESSAGE, error |-> 1,
                     id |-> message.id]>>
        /\ PoolReplaced

C3_Witness ==
    /\ Handled /\ HasId /\ RunsTooLong /\ beh.kind = "hang"
    /\ Len(sent) = 1 /\ sent[1].result = TIMEOUT_MESSAGE
    /\ recycled[self] = 1

\* C4: whenever the envelope has an id, the one response carries exactly
\* that id, for completed, failed, timed-out and malformed requests alike;
\* and what the worker computes does not depend on the id.
C4_IdRoundTrip ==
    (Handled /\ HasId) =>
        /\ Len(sent) = 1
        /\ sent[1].id = message.id
        /\ \A i \in Ids :
              worker_process([message EXCEPT !.id = i], beh) = async.out

C4_Witness ==
    /\ Handled /\ HasId /\ ~Invokes(message)
    /\ message.id = 2
    /\ Len(sent) = 1 /\ sent[1].id = 2

\* C5 (as claimed): every request a ClientConnection received has, once
\* its handler has ended, exactly one response, whatever the envelope's
\* fields and whatever the operation does.
C5_ExactlyOneResponse ==
    Handled =>
        /\ Len(sent) = 1
        /\ HasId => sent[1].id = message.id

\* C6 (as claimed): no exception leaves on_message, whatever fields the
\* envelope has or lacks.
C6_NothingEscapes ==
    Handled => escaped = "none"

\* C7: when one instance's pool is recycled, the pool of every other
\* instance (its identity and the state of its processes) is unchanged.
C7_RecycleIsLocal ==
    [][recycled' # recycled =>
          \A d \in Conns \ {self} : pool'[d] = pool[d]]_vars

C7_Witness ==
    /\ conns = Conns
    /\ Handled
    /\ recycled[self] > 0
    /\ \A d \in Conns \ {self} :
          /\ recycled[d] = 0
          /\ pool[d].pid \notin terminated
          /\ pool[d] = NewPool(pool[d].pid)

\* C8: after one or more timeouts and recycles on an instance, a request
\* whose operation returns before the deadline is answered with error 0
\* and the operation's value, by the live pool installed by the recycle.
C8_ServesAfterRecycle ==
    (Handled /\ HasId /\ CompletesInTime /\ recycled[self] > 0) =>
        /\ Len(sent) = 1
        /\ sent[1].error = 0
        /\ sent[1].result = beh.val
        /\ async.pid \notin terminated
        /\ pool[self] = NewPool(async.pid)

C8_Witness ==
    /\ Handled /\ HasId /\ CompletesInTime
    /\ recycled[self] >= 2
    /\ Len(sent) = 1 /\ sent[1].error = 0

\* C9: a request whose method is missing or unknown, or whose params are
\* missing or do not fit, is answered with error 1 and the traceback of
\* the lookup or invocation error (never the timeout message), and the
\* pool is kept.
C9_MalformedIsFailed ==
    (Handled /\ HasId /\ ~Invokes(message)) =>
        /\ Len(sent) = 1
        /\ sent[1].error = 1
        /\ sent[1].result \in Diagnostics
        /\ sent[1].result # TIMEOUT_MESSAGE
        /\ PoolKept

C9_Witness ==
    /\ Handled /\ HasId
    /\ "method" \in DOMAIN message /\ message.method = "doesNotExist"
    /\ Len(sent) = 1
    /\ sent[1].result = format_exc("AttributeError")

\* C10 (as claimed): a request arriving on either channel, the websocket
\* of a client or the zmq stream, is handled by a ClientConnection
\* instance that owns a pool, and its response goes out on that channel.
C10_AnsweredOnItsChannel ==
    (pc = "done" /\ HasId) =>
        /\ self \in conns
        /\ pool[self] # NoPool
        /\ Len(sent) = 1
        /\ sent[1].chan = self

\* The submissions of instance c's pool that occupy a process.
InFlight(c) == {w \in Workers : pool[c].ctx[w] = "busy"}

\* The wait of async.get ran out: the handler is past its except clause.
DeadlinePassed == self \in Conns /\ pc \in {"send", "done"} /\ ~async.ready

\* C11: after a timeout the old pool is terminated and the new pool is
\* installed before the response is emitted (already at line 68, and in
\* every later state), and a request is only ever submitted to the
\* instance's current pool, which has not been terminated.
C11_RecycleBeforeResponse ==
    /\ DeadlinePassed => PoolReplaced
    /\ pc = "get" => (async.pid = pool[self].pid /\ async.pid \notin terminated)

C11_Witness ==
    /\ DeadlinePassed
    /\ pc = "send"
    /\ sent = << >>
    /\ PoolReplaced

\* C12: a request is submitted only when no callback is running, that is
\* after the handler of the previous request has run to its end (its
\* response, if it has one, emitted); an instance never has more than one
\* submission in flight; and every response emitted is the response of
\* the request accepted last.
C12_OneAtATime ==
    /\ [](\A c \in conns :
            /\ Cardinality(InFlight(c)) <= 1
            /\ InFlight(c) # {} => (pc = "get" /\ self = c))
    /\ [][/\ nreq' # nreq =>
                /\ pc \in {"idle", "done"}
                /\ \A c \in conns : InFlight(c) = {}
                /\ sent' = << >>
          /\ sent' # sent /\ sent' # << >> =>
                /\ pc = "send"
                /\ message' = message
                /\ sent' = <<[chan |-> self, result |-> sent'[1].result,
                              error |-> sent'[1].error, id |-> message.id]>>
         ]_vars

C12_Witness ==
    /\ pc = "get"
    /\ self \in Conns
    /\ recycled[self] >= 1
    /\ nreq >= 2
    /\ Cardinality(InFlight(self)) = 1

\* C13 (as claimed): while one instance is blocked in async.get, every
\* other instance can accept a request.
C13_OthersStillServe ==
    (pc = "get" /\ nreq < MaxRequests) =>
        \A d \in conns \ {self} :
            ENABLED (\E req \in Requests : OnMessage(d, req))

\* The operation was invoked and killed its worker process.
Crashes == Invokes(message) /\ beh.kind = "crash"

\* C14: when the operation kills its process, the other processes of the
\* pool and the pools of the other instances are untouched; no exception
\* leaves the handler; the request (with an id) is answered at the
\* deadline with error 1 and the timeout message; the pool is recycled;
\* and the instance accepts the next request.
C14_CrashIsContained ==
    /\ (pc = "get" /\ async.out.kind = "crash") =>
          /\ \A w \in Workers \ {async.w} : pool[self].ctx[w] = "idle"
          /\ \A d \in conns \ {self} :
                pool[d] = NewPool(pool[d].pid) /\ pool[d].pid \notin terminated
    /\ (Handled /\ HasId /\ Crashes) =>
          /\ sent = <<[chan |-> self, result |-> TIMEOUT_MESSAGE, error |-> 1,
                       id |-> message.id]>>
          /\ escaped = "none"
          /\ waited = TIMEOUT
          /\ PoolReplaced
          /\ nreq < MaxRequests =>
                ENABLED (\E req \in Requests : OnMessage(self, req))

C14_Witness ==
    /\ Handled /\ HasId /\ Crashes
    /\ Len(sent) = 1 /\ sent[1].error = 1
    /\ recycled[self] = 1
    /\ nreq < MaxRequests

\* C15: a response carries the id of its own request, and a return value
\* only if that request's own operation returned it before the deadline;
\* a submission given up at the deadline is answered with the timeout
\* message, and the value it would have returned is in no later response
\* unless that later request returned the same value itself.
C15_AbandonedDiscarded ==
    (self \in Conns /\ Len(sent) = 1) =>
        /\ sent[1].id = message.id
        /\ sent[1].result \in Values =>
              /\ Invokes(message)
              /\ beh.kind = "return"
              /\ beh.val = sent[1].result
              /\ async.ready
        /\ ~async.ready => sent[1].result = TIMEOUT_MESSAGE
        /\ sent[1].result \in abandoned =>
              (async.ready /\ async.out.val = sent[1].result)

C15_Witness ==
    /\ Handled
    /\ abandoned = {"mol text"}
    /\ Len(sent) = 1
    /\ sent[1].result = "pdb text"

\* C16 (as claimed): every constructed instance owns a pool that is not
\* terminated and has WORKERS processes; the pool is created by the
\* constructor; completed, failed and malformed requests keep it; and a
\* request in whose handling it was replaced is answered with the timeout
\* message after its operation ran past the deadline.
C16_PoolLifecycle ==
    /\ \A c \in Conns :
          IF c \in conns
          THEN /\ pool[c].pid # 0
               /\ pool[c].pid \notin terminated
               /\ DOMAIN pool[c].ctx = 1..WORKERS
          ELSE pool[c] = NoPool
    /\ (Handled /\ HasId /\ (CompletesInTime \/ RaisesInTime \/ ~Invokes(message)))
          => PoolKept
    /\ (Handled /\ HasId /\ pool[self].pid # async.pid) =>
          (Len(sent) = 1 /\ sent[1].result = TIMEOUT_MESSAGE)

\* C17: whenever a request can be accepted (no callback is running), every
\* process of every instance's pool is idle and the pool is not
\* terminated; while a request is in flight, the other processes of its
\* pool are idle.
C17_IdleAtAccept ==
    /\ LoopIdle =>
          \A c \in conns :
              pool[c] = NewPool(pool[c].pid) /\ pool[c].pid \notin terminated
    /\ pc = "get" =>
          \A w \in Workers \ {async.w} : pool[self].ctx[w] = "idle"

C17_Witness ==
    /\ pc = "get"
    /\ waited = 0
    /\ nreq = MaxRequests
    /\ recycled[self] >= 1
    /\ abandoned # {}
    /\ Cardinality(InFlight(self)) = 1
    /\ \A w \in Workers \ {async.w} : pool[self].ctx[w] = "idle"

=============================================================================
